---- MODULE Spec2Model ----
(***************************************************************************)
(* Model of calibrator.c: the parallel calibration engine.                 *)
(*                                                                         *)
(* One process per MPI rank runs calibrate_new: it computes its window,    *)
(* runs the strategy (sequentially or on nthreads worker threads), and the *)
(* ranks finally exchange their Best-K registers, which the root merges    *)
(* and prints.  Scores (C doubles) are modelled as small naturals; the     *)
(* unsigned int arithmetic of the partitioner keeps its 32 bit width.      *)
(***************************************************************************)
EXTENDS Integers, Sequences, FiniteSets, TLC

(***************************************************************************)
(* Bounds of the model.                                                    *)
(***************************************************************************)
MaxSims == 2
MaxRanks == 2
MaxThreads == 2
MaxBests == 2
MaxScore == 1
MaxIterations == 2
MaxExperiments == 2
SeqSims == 3
SeqBests == 2
MergeBests == 2
PartSims == 6
PartThreads == 3

Ranks == 0 .. MaxRanks - 1
\* the worker slots of a rank: a run uses the first nthreads of them
Threads == 0 .. PartThreads - 1
Scores == 0 .. MaxScore
Sums == 0 .. MaxScore * MaxExperiments

\* The content of memory that was allocated (alloca) or declared and never
\* written.  Reading it yields an arbitrary value.
Uninit == 0 - 1

(***************************************************************************)
(* unsigned int: 32 bits, kept as two 16 bit limbs <<high, low>> so that   *)
(* products wrap modulo 2^32 exactly as in C.                              *)
(***************************************************************************)
UIntLimb == 2 ^ 16

U32Of(n) == <<(n \div UIntLimb) % UIntLimb, n % UIntLimb>>

UVal(a) == a[1] * UIntLimb + a[2]

UMul(a, n) ==
  LET lo == a[2] * n
      hi == a[1] * n + (lo \div UIntLimb)
  IN  <<hi % UIntLimb, lo % UIntLimb>>

UDiv(a, n) ==
  LET t == (a[1] % n) * UIntLimb + a[2]
  IN  <<a[1] \div n, t \div n>>

UAdd(a, b) ==
  LET lo == a[2] + b[2]
      hi == a[1] + b[1] + (lo \div UIntLimb)
  IN  <<hi % UIntLimb, lo % UIntLimb>>

USub(a, b) ==
  LET lo == UIntLimb + a[2] - b[2]
      hi == UIntLimb + a[1] - b[1] - (IF lo < UIntLimb THEN 1 ELSE 0)
  IN  <<hi % UIntLimb, lo % UIntLimb>>

ULess(a, b) == a[1] < b[1] \/ (a[1] = b[1] /\ a[2] < b[2])

ULeq(a, b) == a = b \/ ULess(a, b)


(***************************************************************************)
(* Work partitioner (calibrate_new).  Without MPI the window is            *)
(* [0, nsimulations), which is what the MPI formulas give for one task.    *)
(***************************************************************************)
RankStart(rank, nsim, tasks) == UDiv(UMul(nsim, rank), tasks)

RankEnd(rank, nsim, tasks) == UDiv(UMul(nsim, 1 + rank), tasks)

\* (mutant) every bound but the last is a multiple of the quotient, so
\* that the last window takes the whole remainder
ThreadBoundLastAbsorbs(i, ns, ne, nth) ==
  IF i = nth THEN ne ELSE UAdd(ns, UMul(UDiv(USub(ne, ns), nth), i))

\* thread[i] = nstart + i * (nend - nstart) / nthreads, for nthreads > 0
ThreadBound(i, ns, ne, nth) == UAdd(ns, UDiv(UMul(USub(ne, ns), i), nth))

ThreadBounds(ns, ne, nth) == [i \in 0 .. nth |-> ThreadBound(i, ns, ne, nth)]

(***************************************************************************)
(* Best-K register: reg = [n, s, e] stands for nsaveds, simulation_best    *)
(* and error_best; C index i is index i + 1 here.                          *)
(***************************************************************************)
\* (mutant) the comparison with the worst held score reversed
BestAcceptsReversed(n, last, nb, value) == n < nb \/ value > last

\* the test that guards the insertion
BestAccepts(n, last, nb, value) == n < nb \/ value < last

\* if (nsaveds < nbests) ++nsaveds;
BestGrow(reg, nb) == [reg EXCEPT !.n = IF reg.n < nb THEN reg.n + 1 ELSE reg.n]

\* error_best[nsaveds - 1] = value; simulation_best[nsaveds - 1] = simulation;
BestWrite(reg, simulation, value) ==
  [reg EXCEPT !.e[reg.n] = value, !.s[reg.n] = simulation]

\* the comparison of one pass of the bubble loop, at C index i >= 1
BubbleSwaps(reg, i) == reg.e[i + 1] < reg.e[i]

BubbleSwap(reg, i) ==
  [reg EXCEPT !.e[i + 1] = reg.e[i], !.e[i] = reg.e[i + 1],
              !.s[i + 1] = reg.s[i], !.s[i] = reg.s[i + 1]]

\* for (i = nsaveds; --i;) { if (...) swap; else break; } entered with --i done
RECURSIVE Bubble(_, _)
Bubble(reg, i) ==
  IF i = 0 THEN reg
  ELSE IF BubbleSwaps(reg, i) THEN Bubble(BubbleSwap(reg, i), i - 1)
  ELSE reg

calibrate_best_sequential(reg, nb, simulation, value) ==
  IF BestAccepts(reg.n, IF reg.n > 0 THEN reg.e[reg.n] ELSE Uninit, nb, value)
  THEN LET placed == BestWrite(BestGrow(reg, nb), simulation, value)
       IN  Bubble(placed, placed.n - 1)
  ELSE reg

(***************************************************************************)
(* calibrate_merge: own is the root's register, rn/rs/re the received      *)
(* count and arrays.  m = [i, j, k, s, e] are the locals of the function.  *)
(***************************************************************************)
MergeTakesReceived(own, re, m) == m.i > own.n \/ own.e[m.i + 1] > re[m.j + 1]

MergeBody(own, rs, re, m) ==
  IF MergeTakesReceived(own, re, m)
  THEN [m EXCEPT !.s[m.k + 1] = rs[m.j + 1], !.e[m.k + 1] = re[m.j + 1],
                 !.j = m.j + 1, !.k = m.k + 1]
  ELSE [m EXCEPT !.s[m.k + 1] = own.s[m.i + 1], !.e[m.k + 1] = own.e[m.i + 1],
                 !.i = m.i + 1, !.k = m.k + 1]

MergeContinues(own, nb, rn, m) == m.k < nb /\ (m.i < own.n \/ m.j < rn)

RECURSIVE MergeLoop(_, _, _, _, _, _)
MergeLoop(own, nb, rn, rs, re, m) ==
  LET m2 == MergeBody(own, rs, re, m)
  IN  IF MergeContinues(own, nb, rn, m2)
      THEN MergeLoop(own, nb, rn, rs, re, m2)
      ELSE m2

calibrate_merge(own, nb, rn, rs, re) ==
  LET m == MergeLoop(own, nb, rn, rs, re,
                     [i |-> 0, j |-> 0, k |-> 0,
                      s |-> [p \in 1 .. nb |-> Uninit],
                      e |-> [p \in 1 .. nb |-> Uninit]])
  IN  [n |-> m.k,
       s |-> [p \in 1 .. nb |-> IF p <= m.k THEN m.s[p] ELSE own.s[p]],
       e |-> [p \in 1 .. nb |-> IF p <= m.k THEN m.e[p] ELSE own.e[p]]]

(***************************************************************************)
(* Trial runner (calibrate_parse).  The simulator and the evaluator are    *)
(* external programs: what the result file holds is an input of the model. *)
(***************************************************************************)
Results ==
  [kind : {"number"}, v : Scores]
    \cup {[kind |-> "unparsable", v |-> 0], [kind |-> "missing", v |-> 0]}

\* e = atof(fgets(buffer, 512, file_result)): atof gives 0 when the line is no
\* number; with no result file fopen gives NULL and fgets(.., NULL) is
\* undefined: the process dies or goes on with some value.
calibrate_parse(res) ==
  CASE res.kind = "number" -> {[crash |-> FALSE, e |-> res.v]}
    [] res.kind = "unparsable" -> {[crash |-> FALSE, e |-> 0]}
    [] OTHER -> {[crash |-> TRUE, e |-> 0]}
                  \cup {[crash |-> FALSE, e |-> g] : g \in Scores}

\* e = 0.; for (j = 0; j < nexperiments; ++j) e += calibrate_parse(.., i, j);
RECURSIVE Aggregate(_, _)
Aggregate(rs, j) ==
  IF j > Len(rs) THEN {[crash |-> FALSE, e |-> 0]}
  ELSE UNION {IF o.crash THEN {o}
              ELSE {[crash |-> t.crash, e |-> IF t.crash THEN 0 ELSE o.e + t.e] :
                      t \in Aggregate(rs, j + 1)} :
              o \in calibrate_parse(rs[j])}

TrialFails(rs) == \E j \in 1 .. Len(rs) : rs[j].kind # "number"

(***************************************************************************)
(* The transient files of a trial (calibrate_parse).  A name is the        *)
(* sequence of its characters, as snprintf writes it into a char[32].      *)
(***************************************************************************)
NameSize == 32

DigitChars == <<"0", "1", "2", "3", "4", "5", "6", "7", "8", "9">>

URem(a, n) == ((a[1] % n) * UIntLimb + a[2]) % n

\* %u of an unsigned int
RECURSIVE Decimal(_)
Decimal(a) ==
  IF a[1] = 0 /\ a[2] < 10 THEN <<DigitChars[a[2] + 1]>>
  ELSE Append(Decimal(UDiv(a, 10)), DigitChars[URem(a, 10) + 1])

\* snprintf(buffer, size, ...): at most size - 1 characters are kept
Snprintf(size, text) ==
  SubSeq(text, 1, IF Len(text) < size THEN Len(text) ELSE size - 1)

\* snprintf(&input[i][0], 32, "input-%u-%u-%u", i, simulation, experiment)
InputName(i, simulation, experiment) ==
  Snprintf(NameSize,
           <<"i", "n", "p", "u", "t", "-">> \o Decimal(U32Of(i)) \o <<"-">>
             \o Decimal(simulation) \o <<"-">> \o Decimal(U32Of(experiment)))

\* snprintf(output, 32, "output-%u-%u", simulation, experiment)
OutputName(simulation, experiment) ==
  Snprintf(NameSize,
           <<"o", "u", "t", "p", "u", "t", "-">> \o Decimal(simulation) \o <<"-">>
             \o Decimal(U32Of(experiment)))

\* snprintf(result, 32, "result-%u-%u", simulation, experiment)
ResultName(simulation, experiment) ==
  Snprintf(NameSize,
           <<"r", "e", "s", "u", "l", "t", "-">> \o Decimal(simulation) \o <<"-">>
             \o Decimal(U32Of(experiment)))

\* the files one trial writes, reads and removes
TrialFiles(nin, simulation, experiment) ==
  {InputName(i, simulation, experiment) : i \in 0 .. nin - 1}
    \cup {OutputName(simulation, experiment), ResultName(simulation, experiment)}

(***************************************************************************)
(* State.  Every rank is a process with its own Calibrate struct, so the   *)
(* fields of the struct are functions of the rank.                         *)
(***************************************************************************)
VARIABLES
  argv,            \* the command line, as main sees it
  doc,             \* the XML data file
  nsimulations,    \* unsigned int, as limbs
  nthreads, nbests, niterations, nexperiments, algorithm, mpi_tasks,
  ninputs, nvariables, nsweeps,
  file,            \* per experiment and slot: the template's GMappedFile
  label,           \* the names of the variables
  value,           \* per rank: the rows of the value matrix that were written
  child,           \* position of calibrate_new in node->children
  returned,        \* what calibrate_new returned
  exit_code,       \* what main returned
  diagnostic,      \* the error message printed
  input,           \* the input file calibrate_input wrote last
  pc,              \* where each rank is in calibrate_new
  nstart, nend, thread,
  nsaveds, simulation_best, error_best,
  seq_i,           \* i of calibrate_sequential
  worker,          \* per thread: pc, i and e of calibrate_thread, i of the bubble
  mutex,           \* TRUE when the rank's GMutex is locked
  join_i,          \* i of the g_thread_join loop
  chan,            \* messages sent to the root and not yet received
  recv_i,          \* i of the root's receive loop
  rx_nsaveds, rx_simulation_best, rx_error_best,   \* locals of calibrate_new
  printed,         \* what the root printed
  cycles,          \* how often the rank ran the strategy
  evaluated,       \* candidates the rank ran trials for
  failed,          \* candidates one of whose trials failed on the rank
  offers           \* <<candidate, aggregate>> handed to the register, in order

config == <<argv, doc, nsimulations, nthreads, nbests, niterations,
            nexperiments, algorithm, mpi_tasks, ninputs, nvariables, nsweeps,
            file, label>>

reader == <<child, returned, exit_code, diagnostic, input>>

window == <<nstart, nend, thread>>

register == <<nsaveds, simulation_best, error_best>>

mpi == <<chan, recv_i, rx_nsaveds, rx_simulation_best, rx_error_best>>

history == <<cycles, evaluated, failed, offers>>

vars == <<config, reader, value, pc, window, register, seq_i, worker, mutex,
          join_i, mpi, printed, history>>

Algorithms == {"MonteCarlo", "Sweep", "Genetic"}

\* values an uninitialised double or count can turn out to hold
Garbage == 0 .. MaxScore * MaxExperiments + 1

GarbageCounts == 0 .. MaxBests + 1

Active(r) == r < mpi_tasks

Reg(r) == [n |-> nsaveds[r], s |-> simulation_best[r], e |-> error_best[r]]

SetReg(r, reg) ==
  /\ nsaveds' = [nsaveds EXCEPT ![r] = reg.n]
  /\ simulation_best' = [simulation_best EXCEPT ![r] = reg.s]
  /\ error_best' = [error_best EXCEPT ![r] = reg.e]

IdleWorker == [pc |-> "none", i |-> U32Of(0), e |-> 0, b |-> 0]

\* a data file that calibrate_new has read and accepted
AcceptedDoc == [parses |-> TRUE]

\* no row of the value matrix (alloca) has been written
NoValue == [filled |-> U32Of(0), by |-> "none"]

\* the state of calibrate_new after the configuration was read:
\* niterations >= 1, nbests >= 1, nexperiments >= 1, nvariables >= 1,
\* nsaveds = 0; sweeps are the sweep numbers of the variables (Sweep only)
InitCalibrate(sims, tasks, nth, nb, nit, nex, alg, nvars, sweeps) ==
  /\ argv = [nthreads |-> nth]
  /\ doc = AcceptedDoc
  /\ ninputs = 1
  /\ nvariables = nvars
  /\ nsweeps = sweeps
  /\ value = [r \in Ranks |-> NoValue]
  /\ child = 0
  /\ returned = Uninit
  /\ exit_code = Uninit
  /\ diagnostic = ""
  /\ nsimulations = sims
  /\ mpi_tasks = tasks
  /\ nthreads = nth
  /\ nbests = nb
  /\ niterations = nit
  /\ nexperiments = nex
  /\ algorithm = alg
  /\ pc = [r \in Ranks |-> IF r < tasks THEN "partition" ELSE "off"]
  /\ nstart = [r \in Ranks |-> U32Of(0)]
  /\ nend = [r \in Ranks |-> U32Of(0)]
  /\ thread = [r \in Ranks |-> <<>>]
  /\ nsaveds = [r \in Ranks |-> 0]
  /\ simulation_best = [r \in Ranks |-> [p \in 1 .. nb |-> Uninit]]
  /\ error_best = [r \in Ranks |-> [p \in 1 .. nb |-> Uninit]]
  /\ seq_i = [r \in Ranks |-> U32Of(0)]
  /\ worker = [r \in Ranks |-> [w \in Threads |-> IdleWorker]]
  /\ mutex = [r \in Ranks |-> FALSE]
  /\ join_i = [r \in Ranks |-> 0]
  /\ chan = [r \in Ranks |-> <<>>]
  /\ recv_i = 1
  /\ rx_nsaveds = Uninit
  /\ rx_simulation_best = [p \in 1 .. nb |-> Uninit]
  /\ rx_error_best = [p \in 1 .. nb |-> Uninit]
  /\ printed = <<>>
  /\ cycles = [r \in Ranks |-> 0]
  /\ evaluated = [r \in Ranks |-> {}]
  /\ failed = [r \in Ranks |-> {}]
  /\ offers = [r \in Ranks |-> <<>>]

\* g_mapped_file_new gave a map of the template's content, or NULL
MappedFile(text) == [mapped |-> TRUE, content |-> text]

NullFile == [mapped |-> FALSE, content |-> <<>>]

\* every experiment has one template, an empty file that was mapped; the
\* variables are named x
InitState(sims, tasks, nth, nb, nit, nex, alg, nvars, sweeps) ==
  /\ InitCalibrate(sims, tasks, nth, nb, nit, nex, alg, nvars, sweeps)
  /\ file = [j \in 1 .. nex |-> <<MappedFile(<<>>)>>]
  /\ label = [i \in 1 .. nvars |-> <<"x">>]
  /\ input = <<>>

\* one variable; with Sweep its sweep number is the simulation number
InitRun(sims, tasks, nth, nb, nit, nex, alg) ==
  InitState(sims, tasks, nth, nb, nit, nex, alg, 1,
            IF alg = "Sweep" THEN <<UVal(sims)>> ELSE <<>>)

Init ==
  \E sims \in 0 .. MaxSims, tasks \in 1 .. MaxRanks, nth \in 0 .. MaxThreads,
     nb \in 1 .. MaxBests, nit \in 1 .. MaxIterations,
     nex \in 1 .. MaxExperiments, alg \in Algorithms :
    InitRun(U32Of(sims), tasks, nth, nb, nit, nex, alg)

(***************************************************************************)
(* calibrate_new, from the partition on.                                   *)
(***************************************************************************)
\* nstart, nend and thread[0 .. nthreads].  With nthreads = 0 the division
\* i * (nend - nstart) / nthreads is undefined: the process traps, or the
\* quotient is 0 (i is 0).
Partition(r) ==
  /\ pc[r] = "partition"
  /\ LET ns == RankStart(r, nsimulations, mpi_tasks)
         ne == RankEnd(r, nsimulations, mpi_tasks)
     IN  /\ nstart' = [nstart EXCEPT ![r] = ns]
         /\ nend' = [nend EXCEPT ![r] = ne]
         /\ IF nthreads = 0
            THEN \/ /\ pc' = [pc EXCEPT ![r] = "crashed"]
                    /\ UNCHANGED thread
                 \/ /\ pc' = [pc EXCEPT ![r] = "strategy"]
                    /\ thread' = [thread EXCEPT ![r] = [i \in {0} |-> ns]]
            ELSE /\ pc' = [pc EXCEPT ![r] = "strategy"]
                 /\ thread' = [thread EXCEPT ![r] = ThreadBounds(ns, ne, nthreads)]
  /\ UNCHANGED <<config, reader, value, register, seq_i, worker, mutex, join_i, mpi, printed,
                 history>>

\* for (i = 0; i < nsimulations; ++i) for (j = 0; j < nvariables; ++j)
\*   value[i * nvariables + j] = ...: the rows 0 .. nsimulations - 1 are written
\* (mutant) no row is written before the workers start
StrategyValueNone(alg, nsim) == [filled |-> U32Of(0), by |-> alg]

StrategyValue(alg, nsim) == [filled |-> nsim, by |-> alg]

\* calibrate_sweep, row i: k = i; l = k % nsweeps[j]; k /= nsweeps[j]; the
\* value written is rangemin[j] + l * step: the row is kept as its digits l
RECURSIVE SweepDigits(_, _, _)
SweepDigits(k, sweeps, j) ==
  IF j > Len(sweeps) THEN <<>>
  ELSE <<k % sweeps[j]>> \o SweepDigits(k \div sweeps[j], sweeps, j + 1)

\* calibrate_MonteCarlo, row i: entry j is the draw number i * nvariables + j
\* of the generator
MonteCarloDraws(i, nvars) == [j \in 1 .. nvars |-> i * nvars + j - 1]

\* row i of the value matrix of rank r: as the strategy wrote it, or never
\* written
ValueRow(r, i) ==
  IF i = Uninit \/ ~ULess(U32Of(i), value[r].filled)
  THEN [j \in 1 .. nvariables |-> Uninit]
  ELSE IF value[r].by = "Sweep" THEN SweepDigits(i, nsweeps, 1)
  ELSE MonteCarloDraws(i, nvariables)

\* switch (algorithm): calibrate_sweep and calibrate_MonteCarlo fill value and
\* then run the trials sequentially or on nthreads threads; calibrate_genetic
\* is empty.  niterations is not read here: the switch is executed once.
Strategy(r) ==
  /\ pc[r] = "strategy"
  /\ cycles' = [cycles EXCEPT ![r] = @ + 1]
  /\ value' = [value EXCEPT ![r] =
       IF algorithm = "Genetic" THEN @ ELSE StrategyValue(algorithm, nsimulations)]
  /\ IF algorithm = "Genetic"
     THEN /\ pc' = [pc EXCEPT ![r] = "comm"]
          /\ UNCHANGED <<seq_i, worker, join_i>>
     ELSE IF nthreads <= 1
     THEN /\ pc' = [pc EXCEPT ![r] = "sequential"]
          /\ seq_i' = [seq_i EXCEPT ![r] = U32Of(0)]
          /\ UNCHANGED <<worker, join_i>>
     ELSE /\ pc' = [pc EXCEPT ![r] = "join"]
          /\ worker' = [worker EXCEPT ![r] =
               [w \in Threads |->
                  IF w < nthreads
                  THEN [pc |-> "trial", i |-> thread[r][w], e |-> 0, b |-> 0]
                  ELSE IdleWorker]]
          /\ join_i' = [join_i EXCEPT ![r] = 0]
          /\ UNCHANGED seq_i
  /\ UNCHANGED <<config, reader, window, register, mutex, mpi, printed,
                 evaluated, failed, offers>>

\* one pass of the loop of calibrate_sequential: i runs from 0 to nsimulations
SequentialTrial(r) ==
  /\ pc[r] = "sequential"
  /\ ULess(seq_i[r], nsimulations)
  /\ \E rs \in [1 .. nexperiments -> Results] : \E o \in Aggregate(rs, 1) :
       LET c == UVal(seq_i[r])
       IN  /\ evaluated' = [evaluated EXCEPT ![r] = @ \cup {c}]
           /\ failed' = [failed EXCEPT ![r] = IF TrialFails(rs) THEN @ \cup {c} ELSE @]
           /\ IF o.crash
              THEN /\ pc' = [pc EXCEPT ![r] = "crashed"]
                   /\ UNCHANGED <<register, seq_i, offers>>
              ELSE /\ SetReg(r, calibrate_best_sequential(Reg(r), nbests, c, o.e))
                   /\ offers' = [offers EXCEPT ![r] = Append(@, <<c, o.e>>)]
                   /\ seq_i' = [seq_i EXCEPT ![r] = UAdd(@, U32Of(1))]
                   /\ UNCHANGED pc
  /\ UNCHANGED <<config, reader, value, window, worker, mutex, join_i, mpi, printed, cycles>>

SequentialEnd(r) ==
  /\ pc[r] = "sequential"
  /\ ~ULess(seq_i[r], nsimulations)
  /\ pc' = [pc EXCEPT ![r] = "comm"]
  /\ UNCHANGED <<config, reader, value, window, register, seq_i, worker, mutex, join_i, mpi,
                 printed, history>>

(***************************************************************************)
(* calibrate_thread and calibrate_best_thread, one step per access to the  *)
(* shared register.  The test before the lock reads nsaveds and            *)
(* error_best[nsaveds - 1] without the mutex.                              *)
(***************************************************************************)
Running(r, w, at) == pc[r] = "join" /\ w < nthreads /\ worker[r][w].pc = at

SetWorker(r, w, rec) == worker' = [worker EXCEPT ![r][w] = rec]

\* what a read of a double yields
ReadOf(x) == IF x = Uninit THEN Garbage ELSE {x}

ThreadTrial(r, w) ==
  /\ Running(r, w, "trial")
  /\ ULess(worker[r][w].i, thread[r][w + 1])
  /\ \E rs \in [1 .. nexperiments -> Results] : \E o \in Aggregate(rs, 1) :
       LET c == UVal(worker[r][w].i)
       IN  /\ evaluated' = [evaluated EXCEPT ![r] = @ \cup {c}]
           /\ failed' = [failed EXCEPT ![r] = IF TrialFails(rs) THEN @ \cup {c} ELSE @]
           /\ IF o.crash
              THEN /\ pc' = [pc EXCEPT ![r] = "crashed"]
                   /\ UNCHANGED worker
              ELSE /\ SetWorker(r, w, [worker[r][w] EXCEPT !.pc = "check", !.e = o.e])
                   /\ UNCHANGED pc
  /\ UNCHANGED <<config, reader, value, window, register, seq_i, mutex, join_i, mpi, printed,
                 cycles, offers>>

ThreadExit(r, w) ==
  /\ Running(r, w, "trial")
  /\ ~ULess(worker[r][w].i, thread[r][w + 1])
  /\ SetWorker(r, w, [worker[r][w] EXCEPT !.pc = "exit"])
  /\ UNCHANGED <<config, reader, value, pc, window, register, seq_i, mutex, join_i, mpi,
                 printed, history>>

\* if (nsaveds < nbests || value < error_best[nsaveds - 1])
BestThreadCheck(r, w) ==
  /\ Running(r, w, "check")
  /\ LET me == worker[r][w]
         n == nsaveds[r]
     IN  /\ offers' = [offers EXCEPT ![r] = Append(@, <<UVal(me.i), me.e>>)]
         /\ \E last \in (IF n < nbests THEN {Uninit} ELSE ReadOf(error_best[r][n])) :
              IF BestAccepts(n, last, nbests, me.e)
              THEN SetWorker(r, w, [me EXCEPT !.pc = "lock"])
              ELSE SetWorker(r, w, [me EXCEPT !.pc = "trial",
                                              !.i = UAdd(me.i, U32Of(1))])
  /\ UNCHANGED <<config, reader, value, pc, window, register, seq_i, mutex, join_i, mpi,
                 printed, cycles, evaluated, failed>>

\* g_mutex_lock(&mutex) returns once no thread holds the mutex
MutexFreeAlways(r) == TRUE

MutexFree(r) == ~mutex[r]

BestThreadLock(r, w) ==
  /\ Running(r, w, "lock")
  /\ MutexFree(r)
  /\ mutex' = [mutex EXCEPT ![r] = TRUE]
  /\ SetWorker(r, w, [worker[r][w] EXCEPT !.pc = "grow"])
  /\ UNCHANGED <<config, reader, value, pc, window, register, seq_i, join_i, mpi, printed,
                 history>>

BestThreadGrow(r, w) ==
  /\ Running(r, w, "grow")
  /\ SetReg(r, BestGrow(Reg(r), nbests))
  /\ SetWorker(r, w, [worker[r][w] EXCEPT !.pc = "write"])
  /\ UNCHANGED <<config, reader, value, pc, window, seq_i, mutex, join_i, mpi, printed, history>>

BestThreadWrite(r, w) ==
  /\ Running(r, w, "write")
  /\ SetReg(r, BestWrite(Reg(r), UVal(worker[r][w].i), worker[r][w].e))
  /\ SetWorker(r, w, [worker[r][w] EXCEPT !.pc = "bubble", !.b = nsaveds[r] - 1])
  /\ UNCHANGED <<config, reader, value, pc, window, seq_i, mutex, join_i, mpi, printed, history>>

BestThreadBubble(r, w) ==
  /\ Running(r, w, "bubble")
  /\ LET me == worker[r][w]
     IN  IF me.b # 0 /\ BubbleSwaps(Reg(r), me.b)
         THEN /\ SetReg(r, BubbleSwap(Reg(r), me.b))
              /\ SetWorker(r, w, [me EXCEPT !.b = me.b - 1])
         ELSE /\ SetWorker(r, w, [me EXCEPT !.pc = "unlock"])
              /\ UNCHANGED register
  /\ UNCHANGED <<config, reader, value, pc, window, seq_i, mutex, join_i, mpi, printed, history>>

BestThreadUnlock(r, w) ==
  /\ Running(r, w, "unlock")
  /\ mutex' = [mutex EXCEPT ![r] = FALSE]
  /\ SetWorker(r, w, [worker[r][w] EXCEPT !.pc = "trial",
                                          !.i = UAdd(worker[r][w].i, U32Of(1))])
  /\ UNCHANGED <<config, reader, value, pc, window, register, seq_i, join_i, mpi, printed,
                 history>>

\* g_thread_join(thread[w]) returns once worker w has left calibrate_thread
ThreadEndedAny(r, w) == TRUE

ThreadEnded(r, w) == worker[r][w].pc = "exit"

\* for (i = 0; i < nthreads; ++i) g_thread_join(thread[i]);
JoinThread(r) ==
  /\ pc[r] = "join"
  /\ join_i[r] < nthreads
  /\ ThreadEnded(r, join_i[r])
  /\ join_i' = [join_i EXCEPT ![r] = @ + 1]
  /\ pc' = [pc EXCEPT ![r] = IF join_i[r] + 1 = nthreads THEN "comm" ELSE @]
  /\ UNCHANGED <<config, reader, value, window, register, seq_i, worker, mutex, mpi, printed,
                 history>>

(***************************************************************************)
(* Communicating tasks results (HAVE_MPI).  A message is the sequence of   *)
(* the elements sent; the messages of one rank arrive in the order sent.   *)
(***************************************************************************)
Prefix(a, n) == [p \in 1 .. n |-> a[p]]

\* MPI_Recv into a buffer: the elements of the message replace the first ones
Received(buf, msg) == [p \in DOMAIN buf |-> IF p <= Len(msg) THEN msg[p] ELSE buf[p]]

UninitAt(a) == {p \in DOMAIN a : a[p] = Uninit}

Resolved(a, g) == [p \in DOMAIN a |-> IF a[p] = Uninit THEN g[p] ELSE a[p]]

\* calibrate_merge(calibrate, nsaveds, simulation_best, error_best) on the
\* root.  Elements that were never written hold arbitrary values when the
\* function reads them; those it does not copy stay as they are.
MergeCall(rn, rs, re) ==
  \E go \in [UninitAt(error_best[0]) -> Garbage],
     gr \in [UninitAt(re) -> Garbage] :
    LET own == Reg(0)
        m == calibrate_merge([own EXCEPT !.e = Resolved(own.e, go)], nbests,
                             rn, rs, Resolved(re, gr))
    IN  SetReg(0, [n |-> m.n,
                   s |-> [p \in 1 .. nbests |-> IF p <= m.n THEN m.s[p] ELSE own.s[p]],
                   e |-> [p \in 1 .. nbests |-> IF p <= m.n THEN m.e[p] ELSE own.e[p]]])

\* else branch: the count sent is the local nsaveds of calibrate_new, which is
\* never assigned; the arrays are sent with calibrate->nsaveds elements.
Send(r) ==
  /\ r # 0
  /\ pc[r] = "comm"
  /\ \E count \in GarbageCounts :
       chan' = [chan EXCEPT ![r] = <<<<count>>,
                                     Prefix(simulation_best[r], nsaveds[r]),
                                     Prefix(error_best[r], nsaveds[r])>>]
  /\ pc' = [pc EXCEPT ![r] = "done"]
  /\ UNCHANGED <<config, reader, value, window, register, seq_i, worker, mutex, join_i, recv_i,
                 rx_nsaveds, rx_simulation_best, rx_error_best, printed, history>>

\* one pass of the root's loop: three MPI_Recv, the arrays with room for
\* calibrate->nsaveds elements (a longer message is an MPI error, which is
\* fatal by default), then calibrate_merge.
RootReceive ==
  /\ pc[0] = "comm"
  /\ recv_i < mpi_tasks
  /\ Len(chan[recv_i]) = 3
  /\ LET msg == chan[recv_i]
     IN  /\ chan' = [chan EXCEPT ![recv_i] = <<>>]
         /\ rx_nsaveds' = msg[1][1]
         /\ IF Len(msg[2]) > nsaveds[0]
            THEN /\ pc' = [pc EXCEPT ![0] = "crashed"]
                 /\ UNCHANGED <<rx_simulation_best, rx_error_best, register, recv_i>>
            ELSE /\ rx_simulation_best' = Received(rx_simulation_best, msg[2])
                 /\ rx_error_best' = Received(rx_error_best, msg[3])
                 /\ recv_i' = recv_i + 1
                 /\ UNCHANGED pc
                 /\ MergeCall(rx_nsaveds', rx_simulation_best', rx_error_best')
  /\ UNCHANGED <<config, reader, value, window, seq_i, worker, mutex, join_i, printed, history>>

RootReceiveEnd ==
  /\ pc[0] = "comm"
  /\ ~(recv_i < mpi_tasks)
  /\ pc' = [pc EXCEPT ![0] = "print"]
  /\ UNCHANGED <<config, reader, value, window, register, seq_i, worker, mutex, join_i, mpi,
                 printed, history>>

\* printf("error=%le\n", error_best[0]) and, for each variable i,
\* value[simulation_best[0] * nvariables + i]
PrintBest ==
  /\ pc[0] = "print"
  /\ printed' = <<[error |-> error_best[0][1],
                   simulation |-> simulation_best[0][1],
                   parameters |-> ValueRow(0, simulation_best[0][1])]>>
  /\ pc' = [pc EXCEPT ![0] = "done"]
  /\ UNCHANGED <<config, reader, value, window, register, seq_i, worker, mutex, join_i, mpi,
                 history>>

Next ==
  \/ \E r \in Ranks : Partition(r)
  \/ \E r \in Ranks : Strategy(r)
  \/ \E r \in Ranks : SequentialTrial(r)
  \/ \E r \in Ranks : SequentialEnd(r)
  \/ \E r \in Ranks, w \in Threads : ThreadTrial(r, w)
  \/ \E r \in Ranks, w \in Threads : ThreadExit(r, w)
  \/ \E r \in Ranks, w \in Threads : BestThreadCheck(r, w)
  \/ \E r \in Ranks, w \in Threads : BestThreadLock(r, w)
  \/ \E r \in Ranks, w \in Threads : BestThreadGrow(r, w)
  \/ \E r \in Ranks, w \in Threads : BestThreadWrite(r, w)
  \/ \E r \in Ranks, w \in Threads : BestThreadBubble(r, w)
  \/ \E r \in Ranks, w \in Threads : BestThreadUnlock(r, w)
  \/ \E r \in Ranks : JoinThread(r)
  \/ \E r \in Ranks : Send(r)
  \/ RootReceive
  \/ RootReceiveEnd
  \/ PrintBest

Spec == Init /\ [][Next]_vars

(***************************************************************************)
(* The sequential path alone: one task, nthreads <= 1.                     *)
(***************************************************************************)
InitSeq ==
  \E sims \in 0 .. SeqSims, nth \in 0 .. 1, nb \in 1 .. SeqBests,
     nex \in 1 .. MaxExperiments, alg \in {"MonteCarlo", "Sweep"} :
    InitRun(U32Of(sims), 1, nth, nb, 1, nex, alg)

NextSeq ==
  \/ Partition(0)
  \/ Strategy(0)
  \/ SequentialTrial(0)
  \/ SequentialEnd(0)

SpecSeq == InitSeq /\ [][NextSeq]_vars

(***************************************************************************)
(* calibrate_merge alone: the root holds one sorted list (kept in          *)
(* offers[0]) and is handed another one (kept in offers[1]) with its       *)
(* length; the elements beyond the lengths were never written.             *)
(***************************************************************************)
SortedLists(nb) ==
  UNION {{l \in [1 .. n -> Sums] : \A p \in 1 .. n - 1 : l[p] <= l[p + 1]} :
           n \in 0 .. nb}

Padded(l, nb) == [p \in 1 .. nb |-> IF p <= Len(l) THEN l[p] ELSE Uninit]

InitMerge ==
  \E nb \in 1 .. MergeBests :
    \E a \in SortedLists(nb), b \in SortedLists(nb) :
      /\ argv = [nthreads |-> 1]
      /\ doc = AcceptedDoc
      /\ ninputs = 1
      /\ nvariables = 1
      /\ nsweeps = <<2 * nb>>
      /\ file = <<<<MappedFile(<<>>)>>>>
      /\ label = <<<<"x">>>>
      /\ input = <<>>
      /\ value = [r \in Ranks |-> [filled |-> U32Of(2 * nb), by |-> "Sweep"]]
      /\ child = 0
      /\ returned = Uninit
      /\ exit_code = Uninit
      /\ diagnostic = ""
      /\ nsimulations = U32Of(2 * nb)
      /\ mpi_tasks = MaxRanks
      /\ nthreads = 1
      /\ nbests = nb
      /\ niterations = 1
      /\ nexperiments = 1
      /\ algorithm = "Sweep"
      /\ pc = [r \in Ranks |-> IF r = 0 THEN "merge" ELSE "done"]
      /\ nstart = [r \in Ranks |-> U32Of(0)]
      /\ nend = [r \in Ranks |-> U32Of(0)]
      /\ thread = [r \in Ranks |-> <<>>]
      /\ nsaveds = [r \in Ranks |-> IF r = 0 THEN Len(a) ELSE 0]
      /\ simulation_best = [r \in Ranks |->
           [p \in 1 .. nb |-> IF r = 0 /\ p <= Len(a) THEN p - 1 ELSE Uninit]]
      /\ error_best = [r \in Ranks |-> IF r = 0 THEN Padded(a, nb) ELSE Padded(<<>>, nb)]
      /\ seq_i = [r \in Ranks |-> U32Of(0)]
      /\ worker = [r \in Ranks |-> [w \in Threads |-> IdleWorker]]
      /\ mutex = [r \in Ranks |-> FALSE]
      /\ join_i = [r \in Ranks |-> 0]
      /\ chan = [r \in Ranks |-> <<>>]
      /\ recv_i = 1
      /\ rx_nsaveds = Len(b)
      /\ rx_simulation_best = [p \in 1 .. nb |-> IF p <= Len(b) THEN nb + p - 1 ELSE Uninit]
      /\ rx_error_best = Padded(b, nb)
      /\ printed = <<>>
      /\ cycles = [r \in Ranks |-> 1]
      /\ evaluated = [r \in Ranks |-> {}]
      /\ failed = [r \in Ranks |-> {}]
      /\ offers = [r \in Ranks |->
           IF r = 0 THEN [p \in 1 .. Len(a) |-> <<p - 1, a[p]>>]
           ELSE IF r = 1 THEN [p \in 1 .. Len(b) |-> <<nb + p - 1, b[p]>>]
           ELSE <<>>]

Merge ==
  /\ pc[0] = "merge"
  /\ MergeCall(rx_nsaveds, rx_simulation_best, rx_error_best)
  /\ pc' = [pc EXCEPT ![0] = "merged"]
  /\ UNCHANGED <<config, reader, value, window, seq_i, worker, mutex, join_i, mpi, printed,
                 history>>

NextMerge == Merge

SpecMerge == InitMerge /\ [][NextMerge]_vars

(***************************************************************************)
(* The partitioner alone, on small and on large simulation numbers.        *)
(***************************************************************************)
PartSimulations ==
  {U32Of(n) : n \in 0 .. PartSims}
    \cup {<<UIntLimb \div 2, 0>>, <<UIntLimb - 1, UIntLimb - 1>>}

InitPart ==
  \E sims \in PartSimulations, tasks \in 1 .. MaxRanks, nth \in 1 .. PartThreads :
    InitRun(sims, tasks, nth, 1, 1, 1, "MonteCarlo")

NextPart == \E r \in Ranks : Partition(r)

SpecPart == InitPart /\ [][NextPart]_vars

(***************************************************************************)
(* main and the reading of the data file (calibrate_new), on one process.  *)
(* The document is an input: doc records what xmlParseFile, xmlHasProp,    *)
(* xmlGetProp and strtoul yield for it.                                    *)
(***************************************************************************)
MaxVariables == 2
ConfigSims == 2

\* xmlHasProp gives NULL for the attribute
Absent == 0 - 2

\* if (!(argn == 2 || (argn == 4 && !strcmp(argc[1], "-nthreads"))))
SyntaxOk(a) == a.argn = 2 \/ (a.argn = 4 /\ a.flag)

HasTemplate(node, j) == (j + 1) \in node.templates

\* for (j = 1; j < 4; ++j) of the experiment loop: nexp is nexperiments and
\* nin is ninputs; gives the message printed before return 0, or "" and the
\* new ninputs
RECURSIVE TemplateLoop(_, _, _, _)
TemplateLoop(node, nexp, nin, j) ==
  IF j >= 4 THEN [error |-> "", ninputs |-> nin]
  ELSE IF HasTemplate(node, j)
  THEN IF nexp # 0 /\ nin < 2
       THEN [error |-> "bad templates number", ninputs |-> nin]
       ELSE TemplateLoop(node, nexp, IF nexp = 0 THEN nin + 1 ELSE nin, j + 1)
  ELSE IF nexp # 0 /\ nin > 1
  THEN [error |-> "No experiment template", ninputs |-> nin]
  ELSE [error |-> "", ninputs |-> nin]

\* the body of the experiment loop for one node
ReadExperimentNode(node, nexp, nin) ==
  IF ~node.hasname THEN [error |-> "No experiment file name", ninputs |-> nin]
  ELSE IF ~HasTemplate(node, 0)
  THEN [error |-> "No experiment template1", ninputs |-> IF nexp = 0 THEN 0 ELSE nin]
  ELSE TemplateLoop(node, nexp, IF nexp = 0 THEN 1 ELSE nin, 1)

\* printf(message); return 0;
Fail(message) ==
  /\ diagnostic' = message
  /\ returned' = 0
  /\ pc' = [pc EXCEPT ![0] = "returned"]

\* main, up to the call of calibrate_new
MainArgs ==
  /\ pc[0] = "main"
  /\ IF ~SyntaxOk(argv)
     THEN /\ diagnostic' = "The sintaxis is"
          /\ exit_code' = 1
          /\ pc' = [pc EXCEPT ![0] = "exited"]
          /\ UNCHANGED nthreads
     ELSE /\ \E cores \in 1 .. MaxThreads :
               nthreads' = IF argv.argn = 2 THEN cores ELSE argv.nthreads
          /\ pc' = [pc EXCEPT ![0] = "document"]
          /\ UNCHANGED <<diagnostic, exit_code>>
  /\ UNCHANGED <<argv, doc, nsimulations, nbests, niterations, nexperiments,
                 algorithm, mpi_tasks, ninputs, nvariables, nsweeps, file,
                 label, input, child, returned, value, window, register, seq_i, worker, mutex,
                 join_i, mpi, printed, history>>

\* xmlParseFile, xmlDocGetRootElement and the name of the root node
ParseDocument ==
  /\ pc[0] = "document"
  /\ IF ~doc.parses THEN Fail("Unable to parse the data file")
     ELSE IF doc.root = "none" THEN Fail("No XML nodes in the data file")
     ELSE IF doc.root # "calibrate" THEN Fail("Bad name of the XML root node")
     ELSE /\ pc' = [pc EXCEPT ![0] = "attributes"]
          /\ UNCHANGED <<diagnostic, returned>>
  /\ UNCHANGED <<config, child, exit_code, input, value, window, register,
                 seq_i, worker, mutex, join_i, mpi, printed, history>>

\* the attributes of the root node: simulator, evaluator, algorithm,
\* simulations, iterations, bests; then the register is allocated.  With an
\* algorithm attribute nsimulations is not assigned here.
ReadAttributes ==
  /\ pc[0] = "attributes"
  /\ LET alg == IF doc.algorithm = "absent" THEN "MonteCarlo"
                ELSE IF doc.algorithm = "sweep" THEN "Sweep" ELSE "Genetic"
         nit == IF doc.iterations = Absent THEN 1 ELSE doc.iterations
         nb == IF doc.bests = Absent THEN 1 ELSE doc.bests
         message ==
           IF ~doc.simulator THEN "No simulator in the data file"
           ELSE IF ~doc.evaluator THEN "No error in the data file"
           ELSE IF alg = "MonteCarlo" /\ doc.simulations = Absent
           THEN "No simulations number in the data file"
           ELSE IF nit = 0 THEN "Null iterations number in the data file"
           ELSE IF nb = 0 THEN "Null bests number in the data file"
           ELSE ""
     IN  IF message # ""
         THEN /\ Fail(message)
              /\ UNCHANGED <<nsimulations, niterations, nbests, algorithm,
                             nexperiments, child, register>>
         ELSE /\ algorithm' = alg
              /\ nsimulations' = IF alg = "MonteCarlo" THEN U32Of(doc.simulations)
                                 ELSE nsimulations
              /\ niterations' = nit
              /\ nbests' = nb
              /\ SetReg(0, [n |-> 0, s |-> [p \in 1 .. nb |-> Uninit],
                            e |-> [p \in 1 .. nb |-> Uninit]])
              /\ nexperiments' = 0
              /\ child' = 1
              /\ pc' = [pc EXCEPT ![0] = "experiments"]
              /\ UNCHANGED <<diagnostic, returned>>
  /\ UNCHANGED <<argv, doc, nthreads, mpi_tasks, ninputs, nvariables, nsweeps,
                 file, label, input, exit_code, value, window, seq_i, worker, mutex, join_i, mpi,
                 printed, history>>

AtExperiment ==
  child <= Len(doc.children) /\ doc.children[child].name = "experiment"

\* file[j][nexperiments] = g_mapped_file_new(template[j][nexperiments], 0,
\* NULL) for template1 and the templates that follow it without a gap: the
\* handles of an accepted experiment node.  The result is stored as it is.
MapTemplates(node) ==
  [j \in {k \in 1 .. 4 : \A l \in 1 .. k : l \in node.templates} |->
     IF j \in node.unmapped THEN NullFile ELSE MappedFile(node.content)]

\* one pass of for (child = node->children; child; child = child->next)
ReadExperiment ==
  /\ pc[0] = "experiments"
  /\ AtExperiment
  /\ LET read == ReadExperimentNode(doc.children[child], nexperiments, ninputs)
     IN  /\ ninputs' = read.ninputs
         /\ IF read.error # ""
            THEN /\ Fail(read.error)
                 /\ UNCHANGED <<nexperiments, child, file>>
            ELSE /\ nexperiments' = nexperiments + 1
                 /\ file' = Append(file, MapTemplates(doc.children[child]))
                 /\ child' = child + 1
                 /\ UNCHANGED <<diagnostic, returned, pc>>
  /\ UNCHANGED <<argv, doc, nsimulations, nthreads, nbests, niterations,
                 algorithm, mpi_tasks, nvariables, nsweeps, label, input,
                 exit_code, value,
                 window, register, seq_i, worker, mutex, join_i, mpi, printed,
                 history>>

\* the loop ends at the first node that is no experiment
ReadExperimentsEnd ==
  /\ pc[0] = "experiments"
  /\ ~AtExperiment
  /\ IF nexperiments = 0
     THEN /\ Fail("No calibration experiments")
          /\ UNCHANGED <<nvariables, nsweeps, nsimulations>>
     ELSE /\ nvariables' = 0
          /\ nsweeps' = <<>>
          /\ nsimulations' = IF algorithm = "Sweep" THEN U32Of(1) ELSE nsimulations
          /\ pc' = [pc EXCEPT ![0] = "variables"]
          /\ UNCHANGED <<diagnostic, returned>>
  /\ UNCHANGED <<argv, doc, nthreads, nbests, niterations, nexperiments,
                 algorithm, mpi_tasks, ninputs, file, label, input, child,
                 exit_code, value, window,
                 register, seq_i, worker, mutex, join_i, mpi, printed, history>>

\* one pass of for (; child; child = child->next)
ReadVariable ==
  /\ pc[0] = "variables"
  /\ child <= Len(doc.children)
  /\ LET node == doc.children[child]
         message ==
           IF node.name # "variable" THEN "Bad XML node"
           ELSE IF ~node.hasname THEN "No variable name"
           ELSE IF ~node.minimum THEN "No variable minimum range"
           ELSE IF ~node.maximum THEN "No variable maximum range"
           ELSE IF algorithm = "Sweep" /\ node.sweeps = Absent
           THEN "No variable sweeps number"
           ELSE ""
     IN  IF message # ""
         THEN /\ Fail(message)
              /\ UNCHANGED <<nsweeps, nsimulations, nvariables, child, label>>
         ELSE /\ IF algorithm = "Sweep"
                 THEN /\ nsweeps' = Append(nsweeps, node.sweeps)
                      /\ nsimulations' = UMul(nsimulations, node.sweeps)
                 ELSE UNCHANGED <<nsweeps, nsimulations>>
              /\ label' = Append(label, node.label)
              /\ nvariables' = nvariables + 1
              /\ child' = child + 1
              /\ UNCHANGED <<diagnostic, returned, pc>>
  /\ UNCHANGED <<argv, doc, nthreads, nbests, niterations, nexperiments,
                 algorithm, mpi_tasks, ninputs, file, input, exit_code, value,
                 window,
                 register, seq_i, worker, mutex, join_i, mpi, printed, history>>

ReadVariablesEnd ==
  /\ pc[0] = "variables"
  /\ child > Len(doc.children)
  /\ IF nvariables = 0
     THEN Fail("No calibration variables")
     ELSE /\ pc' = [pc EXCEPT ![0] = "partition"]
          /\ UNCHANGED <<diagnostic, returned>>
  /\ UNCHANGED <<config, child, exit_code, input, value, window, register,
                 seq_i, worker, mutex, join_i, mpi, printed, history>>

\* the rest of calibrate_new, which Spec details: it ends with return 1
\* unless the process dies on the way
Run ==
  /\ pc[0] = "partition"
  /\ \/ /\ returned' = 1
        /\ pc' = [pc EXCEPT ![0] = "returned"]
     \/ /\ pc' = [pc EXCEPT ![0] = "crashed"]
        /\ UNCHANGED returned
  /\ UNCHANGED <<config, child, exit_code, diagnostic, input, value, window,
                 register, seq_i, worker, mutex, join_i, mpi, printed, history>>

\* calibrate_new(calibrate, argc[argn - 1]); ...; return 0;
MainReturn ==
  /\ pc[0] = "returned"
  /\ exit_code' = 0
  /\ pc' = [pc EXCEPT ![0] = "exited"]
  /\ UNCHANGED <<config, child, returned, diagnostic, input, value, window,
                 register, seq_i, worker, mutex, join_i, mpi, printed, history>>

\* the command lines and data files of the model
Arguments ==
  {[argn |-> 2, flag |-> FALSE, nthreads |-> 0],
   [argn |-> 3, flag |-> FALSE, nthreads |-> 0],
   [argn |-> 4, flag |-> FALSE, nthreads |-> 1]}
    \cup {[argn |-> 4, flag |-> TRUE, nthreads |-> n] : n \in 1 .. MaxThreads}

\* unmapped: the templates whose file cannot be mapped; label: the value of
\* the name attribute of a variable
ExperimentNode(has, n) ==
  [name |-> "experiment", hasname |-> has, templates |-> 1 .. n,
   unmapped |-> {}, content |-> <<>>, label |-> <<>>,
   minimum |-> FALSE, maximum |-> FALSE, sweeps |-> Absent]

VariableNode(kind, has, mn, mx, sw) ==
  [name |-> kind, hasname |-> has, templates |-> {},
   unmapped |-> {}, content |-> <<>>, label |-> <<"x">>, minimum |-> mn,
   maximum |-> mx, sweeps |-> sw]

\* an experiment with n templates of which those in bad name no readable file
UnmappedNode(n, bad) == [ExperimentNode(TRUE, n) EXCEPT !.unmapped = bad]

ExperimentNodes ==
  {ExperimentNode(TRUE, n) : n \in 0 .. 4}
    \cup {ExperimentNode(FALSE, 1), UnmappedNode(1, {1}), UnmappedNode(2, {2})}

VariableNodes ==
  {VariableNode("variable", TRUE, TRUE, TRUE, sw) : sw \in {Absent, 2}}
    \cup {VariableNode("variable", FALSE, TRUE, TRUE, 2),
          VariableNode("variable", TRUE, FALSE, TRUE, 2),
          VariableNode("variable", TRUE, TRUE, FALSE, 2),
          VariableNode("other", TRUE, TRUE, TRUE, 2)}

SeqsUpTo(S, n) == UNION {[1 .. k -> S] : k \in 0 .. n}

GoodHead ==
  [parses |-> TRUE, root |-> "calibrate", simulator |-> TRUE,
   evaluator |-> TRUE, algorithm |-> "absent", simulations |-> ConfigSims,
   iterations |-> Absent, bests |-> Absent]

\* the good head and the heads that differ from it in one place
Heads ==
  {GoodHead,
   [GoodHead EXCEPT !.parses = FALSE],
   [GoodHead EXCEPT !.root = "none"],
   [GoodHead EXCEPT !.root = "other"],
   [GoodHead EXCEPT !.simulator = FALSE],
   [GoodHead EXCEPT !.evaluator = FALSE],
   [GoodHead EXCEPT !.algorithm = "sweep"],
   [GoodHead EXCEPT !.algorithm = "genetic"],
   [GoodHead EXCEPT !.simulations = Absent],
   [GoodHead EXCEPT !.iterations = 0],
   [GoodHead EXCEPT !.iterations = MaxIterations],
   [GoodHead EXCEPT !.bests = 0],
   [GoodHead EXCEPT !.bests = MaxBests]}

Document(head, experiments, variables) ==
  [parses |-> head.parses, root |-> head.root, simulator |-> head.simulator,
   evaluator |-> head.evaluator, algorithm |-> head.algorithm,
   simulations |-> head.simulations, iterations |-> head.iterations,
   bests |-> head.bests, children |-> experiments \o variables]

\* the state at the entry of main: the Calibrate struct is on the stack and
\* holds whatever was there
InitMain(a, d) ==
  /\ argv = a
  /\ doc = d
  /\ nsimulations \in {U32Of(0), U32Of(ConfigSims)}
  /\ nthreads = Uninit
  /\ nbests = Uninit
  /\ niterations = Uninit
  /\ nexperiments = Uninit
  /\ algorithm = "none"
  /\ mpi_tasks = 1
  /\ ninputs = Uninit
  /\ nvariables = Uninit
  /\ nsweeps = <<>>
  /\ file = <<>>
  /\ label = <<>>
  /\ input = <<>>
  /\ value = [r \in Ranks |-> NoValue]
  /\ child = 0
  /\ returned = Uninit
  /\ exit_code = Uninit
  /\ diagnostic = ""
  /\ pc = [r \in Ranks |-> IF r = 0 THEN "main" ELSE "off"]
  /\ nstart = [r \in Ranks |-> U32Of(0)]
  /\ nend = [r \in Ranks |-> U32Of(0)]
  /\ thread = [r \in Ranks |-> <<>>]
  /\ nsaveds = [r \in Ranks |-> 0]
  /\ simulation_best = [r \in Ranks |-> [p \in 1 .. 1 |-> Uninit]]
  /\ error_best = [r \in Ranks |-> [p \in 1 .. 1 |-> Uninit]]
  /\ seq_i = [r \in Ranks |-> U32Of(0)]
  /\ worker = [r \in Ranks |-> [w \in Threads |-> IdleWorker]]
  /\ mutex = [r \in Ranks |-> FALSE]
  /\ join_i = [r \in Ranks |-> 0]
  /\ chan = [r \in Ranks |-> <<>>]
  /\ recv_i = 1
  /\ rx_nsaveds = Uninit
  /\ rx_simulation_best = [p \in 1 .. 1 |-> Uninit]
  /\ rx_error_best = [p \in 1 .. 1 |-> Uninit]
  /\ printed = <<>>
  /\ cycles = [r \in Ranks |-> 0]
  /\ evaluated = [r \in Ranks |-> {}]
  /\ failed = [r \in Ranks |-> {}]
  /\ offers = [r \in Ranks |-> <<>>]

InitConfig ==
  \E a \in Arguments, head \in Heads,
     experiments \in SeqsUpTo(ExperimentNodes, MaxExperiments),
     variables \in SeqsUpTo(VariableNodes, MaxVariables) :
    InitMain(a, Document(head, experiments, variables))

NextConfig ==
  \/ MainArgs
  \/ ParseDocument
  \/ ReadAttributes
  \/ ReadExperiment
  \/ ReadExperimentsEnd
  \/ ReadVariable
  \/ ReadVariablesEnd
  \/ Run
  \/ MainReturn

SpecConfig == InitConfig /\ [][NextConfig]_vars

(***************************************************************************)
(* The sweep: the simulation number is computed from the sweep numbers of  *)
(* the variables while the data file is read, then calibrate_sweep writes  *)
(* the value matrix.                                                       *)
(***************************************************************************)
MaxSweep == 3
SweepVariables == 3

\* small sweep numbers, and large ones whose product does not fit 32 bits
SweepNumbers == (1 .. MaxSweep) \cup {UIntLimb \div 64, UIntLimb \div 32}

SweepHead == [GoodHead EXCEPT !.algorithm = "sweep"]

InitSweep ==
  \E sweeps \in SeqsUpTo(SweepNumbers, SweepVariables) :
    /\ sweeps # <<>>
    /\ InitMain([argn |-> 4, flag |-> TRUE, nthreads |-> 1],
                Document(SweepHead, <<ExperimentNode(TRUE, 1)>>,
                         [j \in 1 .. Len(sweeps) |->
                            VariableNode("variable", TRUE, TRUE, TRUE, sweeps[j])]))

NextSweep ==
  \/ MainArgs
  \/ ParseDocument
  \/ ReadAttributes
  \/ ReadExperiment
  \/ ReadExperimentsEnd
  \/ ReadVariable
  \/ ReadVariablesEnd
  \/ Partition(0)
  \/ Strategy(0)

SpecSweep == InitSweep /\ [][NextSweep]_vars

(***************************************************************************)
(* Progress of the exchange: all tasks on the sequential path.  Every rank *)
(* is a process of its own that goes on running while it can; MPI_Recv     *)
(* blocks until the message has arrived.                                   *)
(***************************************************************************)
InitLive ==
  \E sims \in 0 .. MaxSims, alg \in {"MonteCarlo", "Sweep"} :
    InitRun(U32Of(sims), MaxRanks, 1, 1, 1, 1, alg)

RankStep(r) ==
  \/ Partition(r)
  \/ Strategy(r)
  \/ SequentialTrial(r)
  \/ SequentialEnd(r)
  \/ Send(r)
  \/ r = 0 /\ RootReceive
  \/ r = 0 /\ RootReceiveEnd
  \/ r = 0 /\ PrintBest

NextLive ==
  \/ \E r \in Ranks : Partition(r)
  \/ \E r \in Ranks : Strategy(r)
  \/ \E r \in Ranks : SequentialTrial(r)
  \/ \E r \in Ranks : SequentialEnd(r)
  \/ \E r \in Ranks : Send(r)
  \/ RootReceive
  \/ RootReceiveEnd
  \/ PrintBest

SpecLive ==
  InitLive /\ [][NextLive]_vars /\ \A r \in Ranks : WF_vars(RankStep(r))

(***************************************************************************)
(* calibrate_input: the input file of a trial is the template with the     *)
(* placeholders of the variables replaced.  A text is the sequence of its  *)
(* characters.                                                             *)
(***************************************************************************)
RenderSims == 2
RenderVariables == 2

\* snprintf(buffer, 32, "@variable%u@", i + 1), for k = i + 1
VariablePattern(k) ==
  Snprintf(NameSize, <<"@", "v", "a", "r", "i", "a", "b", "l", "e">> \o Decimal(U32Of(k)) \o <<"@">>)

\* snprintf(buffer, 32, "@value%u@", i + 1), for k = i + 1
ValuePattern(k) ==
  Snprintf(NameSize, <<"@", "v", "a", "l", "u", "e">> \o Decimal(U32Of(k)) \o <<"@">>)

\* g_regex_replace_literal(regex, string, length, 0, replacement, 0, NULL)
\* for a pattern without special characters: every match of the pattern in
\* string, from left to right and without overlap, becomes the replacement
RECURSIVE ReplaceLiteral(_, _, _)
ReplaceLiteral(string, pattern, replacement) ==
  IF Len(string) < Len(pattern) THEN string
  ELSE IF SubSeq(string, 1, Len(pattern)) = pattern
  THEN replacement
         \o ReplaceLiteral(SubSeq(string, Len(pattern) + 1, Len(string)),
                           pattern, replacement)
  ELSE <<string[1]>> \o ReplaceLiteral(Tail(string), pattern, replacement)

\* snprintf(value, 32, format[i], value[simulation * nvariables + i]): the
\* number is written with its digits
FormatValue(v) == Snprintf(NameSize, Decimal(U32Of(v)))

\* one pass of the loop of calibrate_input, for k = i + 1: buffer2 is buffer
\* with @variablek@ replaced by label[i], buffer3 is buffer2 with @valuek@
\* replaced by the formatted value; the next pass works on buffer3
RECURSIVE InputLoop(_, _, _, _)
InputLoop(buffer, names, row, k) ==
  IF k > Len(names) THEN buffer
  ELSE LET buffer2 == ReplaceLiteral(buffer, VariablePattern(k), names[k])
           buffer3 == ReplaceLiteral(buffer2, ValuePattern(k), FormatValue(row[k]))
       IN  InputLoop(buffer3, names, row, k + 1)

\* what calibrate_input writes for a template with this content
calibrate_input(content, names, row) == InputLoop(content, names, row, 1)

\* calibrate_input(calibrate, simulation, input[i], file[i][experiment]) of a
\* trial of the sequential loop.  With a NULL handle
\* g_mapped_file_get_contents gives no content and the process dies in strlen.
CalibrateInput(r) ==
  /\ pc[r] = "sequential"
  /\ ULess(seq_i[r], nsimulations)
  /\ \E j \in 1 .. nexperiments, i \in 1 .. ninputs :
       IF file[j][i].mapped
       THEN /\ input' = <<[name |-> InputName(i - 1, seq_i[r], j - 1),
                           simulation |-> UVal(seq_i[r]),
                           text |-> calibrate_input(file[j][i].content, label,
                                                    ValueRow(r, UVal(seq_i[r])))]>>
            /\ UNCHANGED pc
       ELSE /\ pc' = [pc EXCEPT ![r] = "crashed"]
            /\ UNCHANGED input
  /\ UNCHANGED <<config, child, returned, exit_code, diagnostic, value, window,
                 register, seq_i, worker, mutex, join_i, mpi, printed, history>>

\* the texts of the model: a character, a placeholder, or two of them
RenderPieces ==
  {<<"x">>} \cup {VariablePattern(k) : k \in 1 .. RenderVariables}
    \cup {ValuePattern(k) : k \in 1 .. RenderVariables}

RenderTemplates ==
  {<<>>} \cup RenderPieces \cup {a \o b : a, b \in RenderPieces}

\* names of variables: any text can be the value of the name attribute
RenderLabels == {<<"a">>, ValuePattern(1), VariablePattern(2), ValuePattern(2)}

InitRender ==
  \E sims \in 1 .. RenderSims,
     handle \in {MappedFile(t) : t \in RenderTemplates} \cup {NullFile},
     names \in [1 .. RenderVariables -> RenderLabels] :
    /\ InitCalibrate(U32Of(sims), 1, 1, 1, 1, 1, "MonteCarlo", RenderVariables, <<>>)
    /\ file = <<<<handle>>>>
    /\ label = names
    /\ input = <<>>

NextRender ==
  \/ Partition(0)
  \/ Strategy(0)
  \/ CalibrateInput(0)
  \/ SequentialTrial(0)
  \/ SequentialEnd(0)

SpecRender == InitRender /\ [][NextRender]_vars

\* Freeing memory: g_mapped_file_unref(file[j][i]) and the frees that end
\* calibrate_new, after the results were sent or printed
Teardown(r) ==
  /\ pc[r] = "done"
  /\ pc' = [pc EXCEPT ![r] = "freed"]
  /\ UNCHANGED <<config, reader, value, window, register, seq_i, worker, mutex,
                 join_i, mpi, printed, history>>

(***************************************************************************)
(* The threaded path alone, on one task, for small simulation numbers and  *)
(* for 2^31 simulations.  A worker is followed for its first WorkerTrials  *)
(* candidates.                                                             *)
(***************************************************************************)
WorkerSims == 3
WorkerTrials == 2

InitWorkers ==
  \/ \E sims \in 0 .. WorkerSims, nth \in 2 .. PartThreads,
        alg \in {"MonteCarlo", "Sweep"} :
       InitRun(U32Of(sims), 1, nth, 1, 1, 1, alg)
  \/ \E nth \in 2 .. PartThreads :
       InitRun(<<UIntLimb \div 2, 0>>, 1, nth, 1, 1, 1, "MonteCarlo")

Followed(r, w) ==
  /\ Running(r, w, "trial")
  /\ ULess(USub(worker[r][w].i, thread[r][w]), U32Of(WorkerTrials))

NextWorkers ==
  \/ Partition(0)
  \/ Strategy(0)
  \/ \E w \in Threads : Followed(0, w) /\ ThreadTrial(0, w)
  \/ \E w \in Threads : ThreadExit(0, w)
  \/ \E w \in Threads : BestThreadCheck(0, w)
  \/ \E w \in Threads : BestThreadLock(0, w)
  \/ \E w \in Threads : BestThreadGrow(0, w)
  \/ \E w \in Threads : BestThreadWrite(0, w)
  \/ \E w \in Threads : BestThreadBubble(0, w)
  \/ \E w \in Threads : BestThreadUnlock(0, w)
  \/ JoinThread(0)
  \/ RootReceiveEnd
  \/ PrintBest
  \/ Teardown(0)

SpecWorkers == InitWorkers /\ [][NextWorkers]_vars

(***************************************************************************)
(* Properties.                                                             *)
(***************************************************************************)
Min(a, b) == IF a < b THEN a ELSE b

RangeOf(q) == {q[p] : p \in DOMAIN q}

\* the entries the register of rank r holds
Held(r) == {<<simulation_best[r][p], error_best[r][p]>> : p \in 1 .. nsaveds[r]}

SortedBest(r) ==
  \A p \in 1 .. nsaveds[r] - 1 : error_best[r][p] <= error_best[r][p + 1]

\* the register of rank r holds the min(nbests, Len(all)) entries of lowest
\* score among the entries all, sorted ascending by score
HoldsLowest(r, all) ==
  /\ nsaveds[r] = Min(nbests, Len(all))
  /\ SortedBest(r)
  /\ Held(r) \subseteq RangeOf(all)
  /\ Cardinality(Held(r)) = nsaveds[r]
  /\ \A o \in RangeOf(all) \ Held(r) : \A h \in Held(r) : h[2] <= o[2]

\* the workers of rank r have been joined and nothing was merged yet
Joined(r) ==
  /\ pc[r] = "comm"
  /\ nthreads > 1
  /\ algorithm # "Genetic"
  /\ r = 0 => recv_i = 1

\* C1: in the threaded path, once all workers have been joined, the register
\* holds exactly the min(nbests, number of offers) lowest aggregate scores
\* among all offered candidates, whatever the interleaving of the workers.
ThreadedHoldsLowest ==
  \A r \in Ranks : Joined(r) => HoldsLowest(r, offers[r])

\* C2: in the sequential path, after any sequence of offers starting from an
\* empty register, the register holds the min(nbests, number of offers)
\* lowest-score offers seen so far, sorted ascending by score.
SequentialHoldsLowest == HoldsLowest(0, offers[0])

\* C2 witness: the register is full and the third offer beats both held entries
SequentialDisplaces ==
  /\ nbests = 2
  /\ Len(offers[0]) = 3
  /\ offers[0][3][2] < offers[0][1][2]
  /\ offers[0][3][2] < offers[0][2][2]
  /\ nsaveds[0] = 2
  /\ simulation_best[0][1] = 2

\* C3: after joining the workers error_best[0] is the minimum aggregate score
\* over all candidates offered, as in the single-threaded run, for every
\* nbests >= 1 and every interleaving.
ThreadedBestOne ==
  \A r \in Ranks :
    (Joined(r) /\ offers[r] # <<>>) =>
      /\ nsaveds[r] >= 1
      /\ \A o \in RangeOf(offers[r]) : error_best[r][1] <= o[2]
      /\ \E o \in RangeOf(offers[r]) : error_best[r][1] = o[2]

\* C4: at every observation point of the register (between offers in the
\* sequential path, whenever the mutex is not held in the threaded path, after
\* each merge) nsaveds <= nbests and error_best[0 .. nsaveds) is non-decreasing.
BestSorted ==
  \A r \in Ranks :
    (Active(r) /\ ~mutex[r]) => (nsaveds[r] <= nbests /\ SortedBest(r))

\* the candidates of the window [nstart, nend) of rank r
InWindow(r, c) == ULeq(nstart[r], U32Of(c)) /\ ULess(U32Of(c), nend[r])

\* C6: each rank runs trials only for candidates of its own window, in the
\* threaded and in the sequential path, so the sets of candidates evaluated by
\* two ranks are disjoint.
RanksEvaluateOwnWindow ==
  /\ \A r \in Ranks : \A c \in evaluated[r] : InWindow(r, c)
  /\ \A r1, r2 \in Ranks : r1 # r2 => evaluated[r1] \cap evaluated[r2] = {}

\* C7: when a rank reaches the exchange and the print, the cycle 'strategy
\* populates value, workers run trials and offer, Best-K updates' has been
\* executed exactly niterations times.
IterationsDriven ==
  \A r \in Ranks : pc[r] \in {"comm", "print", "done"} => cycles[r] = niterations

\* C9: the list the root merges for rank i is rank i's register at the end of
\* its trial phase: the count received is rank i's nsaveds and the arrays
\* carry rank i's first nsaveds entries.
RootReceivesRegister ==
  (pc[0] = "comm" /\ recv_i > 1) =>
    LET i == recv_i - 1
    IN  /\ rx_nsaveds = nsaveds[i]
        /\ Prefix(rx_simulation_best, nsaveds[i]) = Prefix(simulation_best[i], nsaveds[i])
        /\ Prefix(rx_error_best, nsaveds[i]) = Prefix(error_best[i], nsaveds[i])

\* C10: a candidate one of whose trials failed (result file missing or not a
\* number) never enters a Best-K register, and the failure does not stop the
\* rank: the step in which a trial fails leaves the rank running.
TrialFailureLocal ==
  /\ [](\A r \in Ranks : \A p \in 1 .. nsaveds[r] :
          \A q \in Ranks : simulation_best[r][p] \notin failed[q])
  /\ [][\A r \in Ranks : failed'[r] # failed[r] => pc'[r] # "crashed"]_vars

\* C8: for two sorted lists, the root's own and a received one, calibrate_merge
\* leaves the min(nbests, total length) lowest-score entries of the union of
\* the two lists, sorted ascending, and only entries of the two lists.
MergeHoldsLowest ==
  pc[0] = "merged" => HoldsLowest(0, offers[0] \o offers[1])

\* the windows [thread[w], thread[w + 1]) of all workers of all ranks
WindowIds == {x \in Ranks \X (0 .. PartThreads) : Active(x[1]) /\ x[2] < nthreads}

WindowLow(x) == thread[x[1]][x[2]]

WindowHigh(x) == thread[x[1]][x[2] + 1]

WindowEmpty(x) == ~ULess(WindowLow(x), WindowHigh(x))

WindowHas(x, c) == ULeq(WindowLow(x), c) /\ ULess(c, WindowHigh(x))

WindowsDisjoint(x, y) ==
  \/ WindowEmpty(x)
  \/ WindowEmpty(y)
  \/ ULeq(WindowHigh(x), WindowLow(y))
  \/ ULeq(WindowHigh(y), WindowLow(x))

\* the number of candidates of a window, and their exact (unwrapped) sum
WindowSize(x) == IF WindowEmpty(x) THEN U32Of(0) ELSE USub(WindowHigh(x), WindowLow(x))

RECURSIVE SumOfSizes(_)
SumOfSizes(S) ==
  IF S = {} THEN U32Of(0)
  ELSE LET x == CHOOSE y \in S : TRUE
           rest == SumOfSizes(S \ {x})
           lo == WindowSize(x)[2] + rest[2]
       IN  <<WindowSize(x)[1] + rest[1] + (lo \div UIntLimb), lo % UIntLimb>>

\* The union of the windows is [0, nsimulations): no window reaches beyond
\* nsimulations, candidate 0 is in a window, and so is the upper end of every
\* window that ends before nsimulations.
WindowsCover ==
  /\ \A x \in WindowIds : WindowEmpty(x) \/ ULeq(WindowHigh(x), nsimulations)
  /\ nsimulations # U32Of(0) => \E x \in WindowIds : WindowHas(x, U32Of(0))
  /\ \A x \in WindowIds :
       (~WindowEmpty(x) /\ ULess(WindowHigh(x), nsimulations)) =>
         \E y \in WindowIds : WindowHas(y, WindowHigh(x))

AllPartitioned == \A r \in Ranks : Active(r) => pc[r] = "strategy"

\* C5: for every nsimulations >= 0, R >= 1 and W >= 1 the windows of the
\* partitioner are pairwise disjoint, their sizes sum to nsimulations and
\* their union is exactly [0, nsimulations).
PartitionExact ==
  AllPartitioned =>
    /\ \A x, y \in WindowIds : x # y => WindowsDisjoint(x, y)
    /\ SumOfSizes(WindowIds) = nsimulations
    /\ WindowsCover

\* the data file is rejected: calibrate_new returned 0
Rejected == returned = 0

\* C11: the exit code is 0 on success and 1 on an argument error, and every
\* configuration error for which calibrate_new returns 0 makes the process
\* print a diagnostic and exit with a non-zero code.
ExitCodes ==
  pc[0] = "exited" =>
    /\ ~SyntaxOk(argv) => exit_code = 1
    /\ returned = 1 => exit_code = 0
    /\ Rejected => (diagnostic # "" /\ exit_code # 0)

\* the experiment nodes of the data file: the children up to the first node
\* that is no experiment
ExperimentCount ==
  CHOOSE n \in 0 .. Len(doc.children) :
    /\ \A k \in 1 .. n : doc.children[k].name = "experiment"
    /\ n = Len(doc.children) \/ doc.children[n + 1].name # "experiment"

TemplatesOf(k) == doc.children[k].templates

\* all experiments carry template1 .. templateN
SameTemplates(N) ==
  /\ ExperimentCount >= 1
  /\ \A k \in 1 .. ExperimentCount :
       doc.children[k].hasname /\ TemplatesOf(k) = 1 .. N

TemplateDiagnostics ==
  {"bad templates number", "No experiment template", "No experiment template1"}

PastExperiments == pc[0] \in {"variables", "partition", "crashed"} \/ returned = 1

\* C12: every configuration in which all experiments (one or more) carry the
\* same number N of templates, for each N in 1..4, passes the template-count
\* check of the experiment-reading loop and is accepted with ninputs = N.
SameTemplatesAccepted ==
  \A N \in 1 .. 4 :
    SameTemplates(N) =>
      /\ diagnostic \notin TemplateDiagnostics
      /\ PastExperiments => ninputs = N

\* some experiment carries a different number of templates than the first,
\* which carries template1 .. templateN for an N in 1..4
TemplatesDiffer ==
  /\ ExperimentCount >= 2
  /\ \E N \in 1 .. 4 : TemplatesOf(1) = 1 .. N
  /\ \E k \in 2 .. ExperimentCount :
       Cardinality(TemplatesOf(k)) # Cardinality(TemplatesOf(1))

\* C13: every configuration in which some experiment carries a different
\* number of templates than the first experiment is rejected: calibrate_new
\* returns 0 before any trial is run.
DifferentTemplatesRejected == TemplatesDiffer => ~PastExperiments

\* the product of sweep numbers, not wrapped: three limbs <<top, high, low>>
WideMul(a, n) ==
  LET lo == a[3] * n
      hi == a[2] * n + (lo \div UIntLimb)
      top == a[1] * n + (hi \div UIntLimb)
  IN  <<top, hi % UIntLimb, lo % UIntLimb>>

RECURSIVE WideProduct(_, _)
WideProduct(sweeps, j) ==
  IF j = 0 THEN <<0, 0, 1>> ELSE WideMul(WideProduct(sweeps, j - 1), sweeps[j])

\* the tuples (l_0, l_1, ...) with 0 <= l_j < s_j, for small s_j
SweepTuples(sweeps) ==
  {t \in [1 .. Len(sweeps) -> 0 .. MaxSweep - 1] :
     \A j \in 1 .. Len(sweeps) : t[j] < sweeps[j]}

SweepWritten == pc[0] = "sequential" /\ value[0].by = "Sweep"

\* C14: for Sweep with sweep counts s_0, s_1, ... (each >= 1) nsimulations is
\* the product of the s_j, and the digit tuples of the candidates
\* 0 .. nsimulations - 1 are pairwise distinct and cover every tuple with
\* 0 <= l_j < s_j exactly once.
SweepEnumerates ==
  SweepWritten =>
    /\ <<0, nsimulations[1], nsimulations[2]>> = WideProduct(nsweeps, Len(nsweeps))
    /\ (\A j \in 1 .. Len(nsweeps) : nsweeps[j] <= MaxSweep) =>
         LET rows == [i \in 0 .. UVal(nsimulations) - 1 |-> ValueRow(0, i)]
         IN  /\ \A i1, i2 \in DOMAIN rows : rows[i1] = rows[i2] => i1 = i2
             /\ {rows[i] : i \in DOMAIN rows} = SweepTuples(nsweeps)

\* C15: if a non-root rank fails to send its Best-K at the final merge step,
\* the root still proceeds with whatever it has: it eventually leaves the
\* receive loop, prints the winner from its current register and terminates.
RootProceedsWithoutSender ==
  \A r \in Ranks \ {0} :
    (pc[r] = "crashed" /\ pc[0] = "comm") ~> (pc[0] = "done" /\ printed # <<>>)

\* a list of <<candidate, score>> entries as count and arrays of nbests places
ListCount(l) == Len(l)

ListCandidates(l) == [p \in 1 .. nbests |-> IF p <= Len(l) THEN l[p][1] ELSE Uninit]

ListScores(l) == [p \in 1 .. nbests |-> IF p <= Len(l) THEN l[p][2] ELSE Uninit]

\* what calibrate_merge can leave when list b is merged into a register
\* holding list a: <<nsaveds, scores>>
MergeOutcomes(a, b) ==
  {LET m == calibrate_merge([n |-> ListCount(a), s |-> ListCandidates(a),
                             e |-> Resolved(ListScores(a), go)],
                            nbests, ListCount(b), ListCandidates(b),
                            Resolved(ListScores(b), gr))
   IN  <<m.n, Prefix(m.e, m.n)>> :
     go \in [UninitAt(ListScores(a)) -> Garbage],
     gr \in [UninitAt(ListScores(b)) -> Garbage]}

\* C16: for any two sorted lists A and B of lengths 0..nbests, merging B into
\* a register holding A and merging A into a register holding B produce
\* registers of the same length with the same sequence of scores.
MergeCommutes ==
  pc[0] = "merged" =>
    MergeOutcomes(offers[1], offers[0])
      = {<<nsaveds[0], Prefix(error_best[0], nsaveds[0])>>}

\* C17: whenever the root prints the winner, the register is non-empty and
\* the printed error and parameter vector are those of register entry 0, a
\* candidate that was actually evaluated; for every algorithm and also when
\* nsimulations is 0.
WinnerWasEvaluated ==
  printed # <<>> =>
    /\ nsaveds[0] >= 1
    /\ printed[1].error = error_best[0][1]
    /\ \E r \in Ranks :
         /\ printed[1].simulation \in evaluated[r]
         /\ <<printed[1].simulation, printed[1].error>> \in RangeOf(offers[r])
    /\ \A j \in DOMAIN printed[1].parameters : printed[1].parameters[j] # Uninit

\* entry p of the register of rank r
Entry(r, p) == <<simulation_best[r][p], error_best[r][p]>>

\* rank r is offering candidates to its register
Offering(r) == pc[r] \in {"sequential", "join"}

\* an entry that leaves the register leaves it for an entry of lower score
DisplacedByLower(r) ==
  \A h \in Held(r) \ Held(r)' :
    h[1] # Uninit => \A n \in Held(r)' \ Held(r) : n[2] < h[2]

\* two held entries of equal score keep their order
TiesKeepOrder(r) ==
  \A p, q \in 1 .. nsaveds[r] : \A p2, q2 \in 1 .. nsaveds'[r] :
    (p < q /\ error_best[r][p] = error_best[r][q] /\ Entry(r, p)[1] # Uninit
       /\ Entry(r, p2)' = Entry(r, p) /\ Entry(r, q2)' = Entry(r, q))
      => p2 < q2

\* C18: an offer whose score equals the score of an entry already held never
\* displaces that entry and is never placed before it; when the register is
\* full and the offered score equals the worst held score the register is
\* left unchanged.
TiesKeepEarlier ==
  [][\A r \in Ranks : Offering(r) => (DisplacedByLower(r) /\ TiesKeepOrder(r))]_vars

\* the candidates worker w of rank r has run a trial for
WorkerRan(r, w) ==
  {c \in {U32Of(x) : x \in evaluated[r]} :
     /\ pc[r] = "join" /\ w < nthreads
     /\ ULeq(thread[r][w], c)
     /\ \/ ULess(c, worker[r][w].i)
        \/ c = worker[r][w].i /\ worker[r][w].pc \notin {"trial", "exit", "none"}}

\* candidates, experiments and slots to compare the names of
NameCandidates ==
  {U32Of(x) : x \in 0 .. 12} \cup {U32Of(110), U32Of(111), <<UIntLimb - 1, UIntLimb - 1>>}

NameExperiments == {0, 1, 10, 11}

InputKeys == (0 .. 3) \X NameCandidates \X NameExperiments

OutputKeys == NameCandidates \X NameExperiments

NamesInjective ==
  /\ \A k1, k2 \in InputKeys :
       InputName(k1[1], k1[2], k1[3]) = InputName(k2[1], k2[2], k2[3]) => k1 = k2
  /\ \A k1, k2 \in OutputKeys :
       /\ OutputName(k1[1], k1[2]) = OutputName(k2[1], k2[2]) => k1 = k2
       /\ ResultName(k1[1], k1[2]) = ResultName(k2[1], k2[2]) => k1 = k2
       /\ OutputName(k1[1], k1[2]) # ResultName(k2[1], k2[2])

\* C19: within one rank no two trials that can run at the same time use the
\* same transient file name: the names are injective in (slot, candidate,
\* experiment), and two different workers never run a trial for the same
\* candidate.
TransientFilesDistinct ==
  /\ NamesInjective
  /\ \A r \in Ranks : \A w1, w2 \in Threads :
       w1 # w2 =>
         \A c1 \in WorkerRan(r, w1), c2 \in WorkerRan(r, w2) :
           \A j1, j2 \in 0 .. nexperiments - 1 :
             TrialFiles(ninputs, c1, j1) \cap TrialFiles(ninputs, c2, j2) = {}

\* the strategy has written all rows of the value matrix of rank r
ValueWritten(r) == value[r] = [filled |-> nsimulations, by |-> algorithm]

\* C20: the value matrix is completely written by the strategy before the
\* first worker is started, and no entry of it changes from the start of the
\* first worker until the winner has been printed.
ValueReadOnly ==
  /\ [](\A r \in Ranks : pc[r] \in {"sequential", "join"} => ValueWritten(r))
  /\ [][\A r \in Ranks :
          pc[r] \in {"sequential", "join", "comm", "print"} => value'[r] = value[r]]_vars

\* C20 witness: the workers have run trials on a written matrix and the
\* winner has been printed
ValueReadAndPrinted ==
  /\ printed # <<>>
  /\ nthreads > 1
  /\ Cardinality(evaluated[0]) > 1
  /\ ValueWritten(0)
  /\ printed[1].parameters = ValueRow(0, simulation_best[0][1])
  /\ printed[1].parameters[1] # Uninit

\* worker w of rank r has left calibrate_thread after a trial for every
\* candidate of its window
WorkerFinished(r, w) ==
  /\ worker[r][w].pc = "exit"
  /\ ~ULess(worker[r][w].i, thread[r][w + 1])
  /\ \A c \in 0 .. WorkerSims :
       (ULeq(thread[r][w], U32Of(c)) /\ ULess(U32Of(c), thread[r][w + 1]))
         => c \in evaluated[r]

\* the steps calibrate_new takes after the strategy: receive, merge, print,
\* release of the template maps
CoordinatorProceeds ==
  \/ recv_i' # recv_i
  \/ printed' # printed
  \/ chan' # chan
  \/ pc'[0] \in {"print", "done", "freed"} /\ pc'[0] # pc[0]

Holders(r) ==
  {w \in Threads : worker[r][w].pc \in {"grow", "write", "bubble", "unlock"}}

\* C26: in the threaded path every write to nsaveds, error_best and
\* simulation_best is made by a worker that holds the mutex, at most one
\* worker holds it at a time, a worker that took it releases it before it
\* goes on to its next candidate, and the mutex is free once the workers
\* have been joined.
MutexDiscipline ==
  /\ [](\A r \in Ranks :
         /\ Cardinality(Holders(r)) <= 1
         /\ mutex[r] <=> Holders(r) # {}
         /\ pc[r] \in {"comm", "print", "done", "freed"} => ~mutex[r])
  /\ [][\A r \in Ranks :
          (pc[r] = "join" /\ Reg(r)' # Reg(r)) =>
            /\ mutex[r] /\ mutex'[r]
            /\ \E w \in Holders(r) : worker'[r][w] # worker[r][w]]_vars
  /\ [][\A r \in Ranks : \A w \in Threads :
          (w \in Holders(r) /\ worker'[r][w].pc \notin {"grow", "write", "bubble", "unlock"})
            => (~mutex'[r] /\ worker[r][w].pc = "unlock")]_vars

\* C26 witness: two workers want the mutex, one holds it and has written the
\* register, the other waits at g_mutex_lock
MutexContended ==
  /\ pc[0] = "join"
  /\ mutex[0]
  /\ nsaveds[0] = 1
  /\ \E w1, w2 \in Threads :
       /\ worker[0][w1].pc = "bubble"
       /\ worker[0][w2].pc = "lock"

\* the products of the partitioner of rank r fit 32 bits
NoWrap(r) ==
  /\ WideMul(<<0>> \o nsimulations, mpi_tasks)[1] = 0
  /\ WideMul(<<0>> \o USub(nend[r], nstart[r]), nthreads)[1] = 0

\* C22 (as stated): only the last window absorbs the remainder of the
\* integer division: every worker except the last owns exactly
\* floor(D / W) candidates of a rank window of size D, and every rank
\* except the last owns floor(nsimulations / R) candidates.  Stated for the
\* simulation numbers whose products fit 32 bits.
LastAbsorbsRemainder ==
  \A r \in Ranks :
    (Active(r) /\ pc[r] = "strategy" /\ NoWrap(r)) =>
      /\ \A w \in 0 .. nthreads - 2 :
           USub(thread[r][w + 1], thread[r][w])
             = UDiv(USub(nend[r], nstart[r]), nthreads)
      /\ r < mpi_tasks - 1 =>
           USub(nend[r], nstart[r]) = UDiv(nsimulations, mpi_tasks)

\* C22 (amended): the remainder of the integer division is spread over the
\* windows: when the products fit 32 bits every worker owns floor(D / W) or
\* floor(D / W) + 1 candidates of a rank window of size D, the windows run
\* from nstart to nend, and every rank owns floor(nsimulations / R) or
\* floor(nsimulations / R) + 1 candidates.
RemainderSpread ==
  \A r \in Ranks :
    (Active(r) /\ pc[r] = "strategy" /\ NoWrap(r)) =>
      LET q == UDiv(USub(nend[r], nstart[r]), nthreads)
          Q == UDiv(nsimulations, mpi_tasks)
      IN  /\ thread[r][0] = nstart[r]
          /\ thread[r][nthreads] = nend[r]
          /\ \A w \in 0 .. nthreads - 1 :
               USub(thread[r][w + 1], thread[r][w]) \in {q, UAdd(q, U32Of(1))}
          /\ USub(nend[r], nstart[r]) \in {Q, UAdd(Q, U32Of(1))}

\* C22 witness: five candidates on three workers: the second worker, not
\* the last alone, owns more than floor(5 / 3)
MiddleWindowLarger ==
  /\ mpi_tasks = 1
  /\ nthreads = 3
  /\ nsimulations = U32Of(5)
  /\ pc[0] = "strategy"
  /\ thread[0][1] = U32Of(1)
  /\ thread[0][2] = U32Of(3)
  /\ thread[0][3] = U32Of(5)

\* C23: for every nthreads <= 1, nthreads = 0 included, the bounds
\* thread[0 .. nthreads] are computed without a failure and the strategy is
\* reached: a process only dies in a trial, after the strategy has started
\* the sequential loop.
SequentialWithoutThreads ==
  \A r \in Ranks :
    (nthreads <= 1 /\ pc[r] = "crashed") => cycles[r] >= 1

\* a template of experiment j that could not be mapped
UnmappedHandle ==
  \E j \in 1 .. Len(file) : \E i \in 1 .. Len(file[j]) : ~file[j][i].mapped

\* C24: when a template file cannot be mapped while an experiment is read,
\* calibrate_new prints a message and returns 0, and no trial runs with the
\* handle that failed to open.
TemplateOpenErrorRejected ==
  UnmappedHandle => (returned = 0 /\ diagnostic # "" /\ pc[0] = "returned")

\* the placeholder that begins text, as <<kind, k>>, if there is one
PlaceholderAt(text, n) ==
  {x \in {"variable", "value"} \X (1 .. n) :
     LET pattern == IF x[1] = "variable" THEN VariablePattern(x[2])
                    ELSE ValuePattern(x[2])
     IN  Len(pattern) <= Len(text) /\ SubSeq(text, 1, Len(pattern)) = pattern}

\* the template with every placeholder occurrence replaced at once: inserted
\* text is not looked at again
RECURSIVE Simultaneous(_, _, _)
Simultaneous(text, names, row) ==
  IF text = <<>> THEN <<>>
  ELSE IF PlaceholderAt(text, Len(names)) = {}
  THEN <<text[1]>> \o Simultaneous(Tail(text), names, row)
  ELSE LET x == CHOOSE y \in PlaceholderAt(text, Len(names)) : TRUE
           pattern == IF x[1] = "variable" THEN VariablePattern(x[2])
                      ELSE ValuePattern(x[2])
       IN  (IF x[1] = "variable" THEN names[x[2]] ELSE FormatValue(row[x[2]]))
             \o Simultaneous(SubSeq(text, Len(pattern) + 1, Len(text)), names, row)

\* C25: the input file calibrate_input writes is the template with each
\* placeholder occurrence of the original template replaced simultaneously:
\* the name or the formatted value inserted for a placeholder is not scanned
\* and replaced by a later substitution of the same render.
RenderIsSimultaneous ==
  input # <<>> =>
    input[1].text
      = Simultaneous(file[1][1].content, label, ValueRow(0, input[1].simulation))

====
